---- MODULE Spec2Model ----
(***************************************************************************)
(* AppComponent of src/app/app.component.ts: the signal clickCount, the    *)
(* stream clickCount$ derived from it, the hand-written customInterval$    *)
(* and the subscriptions ngOnInit ties to the component's DestroyRef.      *)
(*                                                                         *)
(* One action is one task of the single JavaScript thread, run to          *)
(* completion: the initialisation of the component, one callback of the    *)
(* setInterval timer, one click of the button, the destruction of the      *)
(* component.  The notification pass that carries a write of the signal to *)
(* clickCount$ runs before the host hands control to the next task, so it  *)
(* belongs to the task that wrote the signal.  interval$ and               *)
(* intervalSignal are read by no observer of ngOnInit and are left out.    *)
(***************************************************************************)
EXTENDS Integers, Sequences, FiniteSets, TLC

VARIABLES
    initialized,      \* ngOnInit has run
    destroyed,        \* the DestroyRef has run its callbacks
    onDestroyCbs,     \* callbacks ngOnInit registered with destroyRef.onDestroy
    clickCount,       \* the value held by the signal clickCount
    timesExecuted,    \* the closure variable of customInterval$
    timerActive,      \* the setInterval handle `interval` is still scheduled
    customSub,        \* subscriber of this.customInterval$.subscribe(...)
    clickSub,         \* `subscription`, of this.clickCount$.subscribe(...)
    clickFinalized,   \* times the teardown of `subscription` was executed
    log,              \* what console.log has written, in order
    ticks,            \* timer callbacks run since the subscription
    clicks,           \* onClick calls made so far
    emitted,          \* the values clickCount$ has handed to its observer
    \* the component of part_000 (the same component with interval(1000))
    p0Initialized,    \* its ngOnInit has run
    p0Destroyed,      \* its DestroyRef has run its callbacks
    p0Sub,            \* its `subscription`
    p0Count,          \* the next number interval(1000) emits
    p0Log,            \* what its observer has written with console.log
    p0Periods         \* timer periods elapsed since its subscription

\* the state of AppComponent of app.component.ts
appVars == <<initialized, destroyed, onDestroyCbs, clickCount, timesExecuted,
             timerActive, customSub, clickSub, clickFinalized, log, ticks,
             clicks, emitted>>

\* the state of AppComponent of part_000
p0Vars == <<p0Initialized, p0Destroyed, p0Sub, p0Count, p0Log, p0Periods>>

vars == <<appVars, p0Vars>>

\* ------------------------------------------------------------------ bounds

\* onClick calls explored in one run
MaxClicks == 3

\* timer periods of interval(1000) explored in one run
MaxPeriods == 14

\* ------------------------------------------------------- program constants

\* `timesExecuted > 3`
LastCount == 3

\* signal(0)
InitialCount == 0

\* ------------------------------------------------------------ log entries

\* console.log('Emitting new value...')
EmittingLine == [line |-> "Emitting new value..."]

\* the object handed to subscriber.next and logged by the observer
NewValue == [message |-> "New value"]

\* console.log(val) of the customInterval$ observer
ValueLine(val) == [obj |-> val]

\* console.log('COMPLETED')
CompletedLine == [line |-> "COMPLETED"]

\* console.log(`Clicked button ${this.clickCount()} times.`)
ClickedLine(n) == [clicked |-> n]

\* ---------------------------------------------------- subscription states

\* a subscription is "none" (not made yet), "active", "completed" or "canceled"

\* A subscriber forwards a notification only while it is neither completed
\* nor unsubscribed.
IsOpen(sub) == sub = "active"

\* (variant: a subscriber that forwards whatever its state)
CustomNextUnguarded(sub, l, val) == Append(l, ValueLine(val))

\* subscriber.next(val) as seen by the customInterval$ observer
CustomNext(sub, l, val) ==
    IF IsOpen(sub) THEN Append(l, ValueLine(val)) ELSE l

\* subscriber.complete(): the observer's complete handler runs once, and the
\* subscriber is closed
CustomCompleteLog(sub, l) ==
    IF IsOpen(sub) THEN Append(l, CompletedLine) ELSE l

\* (variant: complete() marks a closed subscriber completed too)
CustomCompleteStateAlways(sub) == "completed"

CustomCompleteState(sub) ==
    IF IsOpen(sub) THEN "completed" ELSE sub

\* (variant: the observer logs the count as it was before the write)
ClickNextStale(sub, l, val, current) ==
    IF IsOpen(sub) THEN Append(l, ClickedLine(current - 1)) ELSE l

\* an emission of clickCount$ as seen by its observer, which ignores the
\* value it is handed and reads the signal (`current`) again
ClickNext(sub, l, val, current) ==
    IF IsOpen(sub) THEN Append(l, ClickedLine(current)) ELSE l

\* the value of an emission of clickCount$, as handed to the observer
ClickEmit(sub, em, val) ==
    IF IsOpen(sub) THEN Append(em, val) ELSE em

\* subscription.unsubscribe(): closes an open subscription and runs its
\* teardown; does nothing on a closed one
UnsubscribeState(sub) ==
    IF IsOpen(sub) THEN "canceled" ELSE sub

\* (variant: unsubscribe runs the teardown again on a closed subscription)
UnsubscribeFinalizedAlways(sub, n) == n + 1

UnsubscribeFinalized(sub, n) ==
    IF IsOpen(sub) THEN n + 1 ELSE n

\* (variant: the comparison is off by one, `timesExecuted > 2`)
ExhaustedOffByOne(n) == n > LastCount - 1

\* `timesExecuted > 3`
Exhausted(n) == n > LastCount

\* (variant: the updater adds two)
IncrementTwice(prevCount) == prevCount + 2

\* prevCount => prevCount + 1
Increment(prevCount) == prevCount + 1

\* ------------------------------------------------------------------- Init

Init ==
    /\ initialized = FALSE
    /\ destroyed = FALSE
    /\ onDestroyCbs = 0
    /\ clickCount = InitialCount
    /\ timesExecuted = 0
    /\ timerActive = FALSE
    /\ customSub = "none"
    /\ clickSub = "none"
    /\ clickFinalized = 0
    /\ log = <<>>
    /\ ticks = 0
    /\ clicks = 0
    /\ emitted = <<>>
    /\ p0Initialized = FALSE
    /\ p0Destroyed = FALSE
    /\ p0Sub = "none"
    /\ p0Count = 0
    /\ p0Log = <<>>
    /\ p0Periods = 0

\* ---------------------------------------------------------------- actions

\* (variant: clickCount$ hands a new subscriber nothing until the next write)
NgOnInitNoInitial ==
    /\ ~initialized
    /\ initialized' = TRUE
    /\ timesExecuted' = 0
    /\ timerActive' = TRUE
    /\ customSub' = "active"
    /\ clickSub' = "active"
    /\ onDestroyCbs' = onDestroyCbs + 1
    /\ UNCHANGED <<destroyed, clickCount, clickFinalized, ticks, clicks, log>>
    /\ UNCHANGED <<emitted, p0Vars>>

\* ngOnInit: subscribes to customInterval$ (which starts the timer and keeps
\* no handle), subscribes to clickCount$ keeping `subscription`, registers
\* the onDestroy callback.  clickCount$ hands its subscriber the signal's
\* current value.
NgOnInit ==
    /\ ~initialized
    /\ initialized' = TRUE
    /\ timesExecuted' = 0
    /\ timerActive' = TRUE
    /\ customSub' = "active"
    /\ clickSub' = "active"
    /\ onDestroyCbs' = onDestroyCbs + 1
    /\ log' = ClickNext("active", log, clickCount, clickCount)
    /\ emitted' = ClickEmit("active", emitted, clickCount)
    /\ UNCHANGED <<destroyed, clickCount, clickFinalized, ticks, clicks>>
    /\ UNCHANGED p0Vars

\* (variant: the callback that makes the last emission also stops the timer
\* and completes)
TickEager ==
    /\ timerActive
    /\ ticks' = ticks + 1
    /\ log' = LET l == CustomNext(customSub, Append(log, EmittingLine), NewValue)
              IN  IF Exhausted(timesExecuted + 1)
                  THEN CustomCompleteLog(customSub, l) ELSE l
    /\ timesExecuted' = timesExecuted + 1
    /\ timerActive' = ~Exhausted(timesExecuted + 1)
    /\ customSub' = IF Exhausted(timesExecuted + 1)
                    THEN CustomCompleteState(customSub) ELSE customSub
    /\ UNCHANGED <<initialized, destroyed, onDestroyCbs, clickCount, clickSub,
                   clickFinalized, clicks>>
    /\ UNCHANGED <<emitted, p0Vars>>

\* (variant: the callback makes its emission without the console.log of its
\* own)
TickQuiet ==
    /\ timerActive
    /\ ticks' = ticks + 1
    /\ IF Exhausted(timesExecuted)
       THEN /\ timerActive' = FALSE
            /\ log' = CustomCompleteLog(customSub, log)
            /\ customSub' = CustomCompleteState(customSub)
            /\ UNCHANGED timesExecuted
       ELSE /\ log' = CustomNext(customSub, log, NewValue)
            /\ timesExecuted' = timesExecuted + 1
            /\ UNCHANGED <<timerActive, customSub>>
    /\ UNCHANGED <<initialized, destroyed, onDestroyCbs, clickCount, clickSub,
                   clickFinalized, clicks>>
    /\ UNCHANGED <<emitted, p0Vars>>

\* (variant: a callback that finds its subscriber closed returns at once,
\* leaving the timer scheduled)
TickSkipWhenClosed ==
    /\ timerActive
    /\ IF ~IsOpen(customSub)
       THEN UNCHANGED <<ticks, timerActive, log, customSub, timesExecuted>>
       ELSE /\ ticks' = ticks + 1
            /\ IF Exhausted(timesExecuted)
               THEN /\ timerActive' = FALSE
                    /\ log' = CustomCompleteLog(customSub, log)
                    /\ customSub' = CustomCompleteState(customSub)
                    /\ UNCHANGED timesExecuted
               ELSE /\ log' = CustomNext(customSub, Append(log, EmittingLine),
                                         NewValue)
                    /\ timesExecuted' = timesExecuted + 1
                    /\ UNCHANGED <<timerActive, customSub>>
    /\ UNCHANGED <<initialized, destroyed, onDestroyCbs, clickCount, clickSub,
                   clickFinalized, clicks>>
    /\ UNCHANGED <<emitted, p0Vars>>

\* one callback of setInterval(..., 2000)
Tick ==
    /\ timerActive
    /\ ticks' = ticks + 1
    /\ IF Exhausted(timesExecuted)
       THEN /\ timerActive' = FALSE
            /\ log' = CustomCompleteLog(customSub, log)
            /\ customSub' = CustomCompleteState(customSub)
            /\ UNCHANGED timesExecuted
       ELSE /\ log' = CustomNext(customSub, Append(log, EmittingLine), NewValue)
            /\ timesExecuted' = timesExecuted + 1
            /\ UNCHANGED <<timerActive, customSub>>
    /\ UNCHANGED <<initialized, destroyed, onDestroyCbs, clickCount, clickSub,
                   clickFinalized, clicks>>
    /\ UNCHANGED <<emitted, p0Vars>>

\* (variant: the signal is written without notifying clickCount$)
OnClickSilent ==
    /\ initialized
    /\ clicks < MaxClicks
    /\ clicks' = clicks + 1
    /\ clickCount' = Increment(clickCount)
    /\ UNCHANGED <<initialized, destroyed, onDestroyCbs, timesExecuted,
                   timerActive, customSub, clickSub, clickFinalized, ticks, log>>
    /\ UNCHANGED <<emitted, p0Vars>>

\* onClick: the button of the template; the write of the signal reaches
\* clickCount$ before the task ends (a write that leaves the value as it was
\* notifies nobody)
OnClick ==
    /\ initialized
    /\ clicks < MaxClicks
    /\ clicks' = clicks + 1
    /\ clickCount' = Increment(clickCount)
    /\ log' = IF clickCount' # clickCount
              THEN ClickNext(clickSub, log, clickCount', clickCount')
              ELSE log
    /\ emitted' = IF clickCount' # clickCount
                  THEN ClickEmit(clickSub, emitted, clickCount')
                  ELSE emitted
    /\ UNCHANGED <<initialized, destroyed, onDestroyCbs, timesExecuted,
                   timerActive, customSub, clickSub, clickFinalized, ticks>>
    /\ UNCHANGED p0Vars

\* (variant: the callback does not unsubscribe)
OnDestroyCallbackEmpty ==
    /\ UNCHANGED <<clickSub, clickFinalized>>

\* the body of the callback given to destroyRef.onDestroy
OnDestroyCallback ==
    /\ clickSub' = UnsubscribeState(clickSub)
    /\ clickFinalized' = UnsubscribeFinalized(clickSub, clickFinalized)

\* the component is destroyed: the DestroyRef runs its callbacks, once
Destroy ==
    /\ initialized
    /\ ~destroyed
    /\ destroyed' = TRUE
    /\ OnDestroyCallback
    /\ UNCHANGED <<initialized, onDestroyCbs, clickCount, timesExecuted,
                   timerActive, customSub, log, ticks, clicks>>
    /\ UNCHANGED <<emitted, p0Vars>>

Next ==
    \/ NgOnInit
    \/ Tick
    \/ OnClick
    \/ Destroy

Spec == Init /\ [][Next]_vars

\* A holder of the Subscription that customInterval$.subscribe returns calls
\* unsubscribe on it.  The function given to new Observable returns no
\* teardown, so the timer is left as it is.
UnsubscribeCustom ==
    /\ customSub = "active"
    /\ customSub' = UnsubscribeState(customSub)
    /\ UNCHANGED <<initialized, destroyed, onDestroyCbs, clickCount,
                   timesExecuted, timerActive, clickSub, clickFinalized, log,
                   ticks, clicks>>
    /\ UNCHANGED <<emitted, p0Vars>>

NextObs ==
    \/ Next
    \/ UnsubscribeCustom

\* customInterval$ with a subscriber that may unsubscribe at any moment
SpecObs == Init /\ [][NextObs]_vars

\* the same, with the host's timer queue running every callback that is due:
\* a scheduled setInterval callback is not postponed forever
FairSpecObs == SpecObs /\ WF_vars(Tick)

\* ------------------------------------------------- the part_000 component

\* (variant: the projection adds two instead of doubling)
MapValuePlusTwo(val) == val + 2

\* map((val) => val * 2)
MapValue(val) == val * 2

\* next: (val) => console.log(val)
P0Next(sub, l, val) ==
    IF IsOpen(sub) THEN Append(l, val) ELSE l

\* ngOnInit of part_000: subscribes to interval(1000).pipe(map(...)), which
\* starts counting at 0, and registers the onDestroy callback
P0NgOnInit ==
    /\ ~p0Initialized
    /\ p0Initialized' = TRUE
    /\ p0Sub' = "active"
    /\ p0Count' = 0
    /\ UNCHANGED <<p0Destroyed, p0Log, p0Periods>>
    /\ UNCHANGED appVars

\* one period of 1000 ms elapses: while the subscription is open interval
\* emits its count, which map doubles and the observer logs; unsubscribing
\* unschedules the timer of interval, and then a period brings nothing
P0Period ==
    /\ p0Initialized
    /\ p0Periods < MaxPeriods
    /\ p0Periods' = p0Periods + 1
    /\ p0Log' = P0Next(p0Sub, p0Log, MapValue(p0Count))
    /\ p0Count' = IF IsOpen(p0Sub) THEN p0Count + 1 ELSE p0Count
    /\ UNCHANGED <<p0Initialized, p0Destroyed, p0Sub>>
    /\ UNCHANGED appVars

\* (variant: the callback does not unsubscribe)
P0OnDestroyCallbackEmpty ==
    /\ p0Sub' = p0Sub

\* the body of the callback given to destroyRef.onDestroy in part_000
P0OnDestroyCallback ==
    /\ p0Sub' = UnsubscribeState(p0Sub)

\* the part_000 component is destroyed: the DestroyRef runs its callbacks
P0Destroy ==
    /\ p0Initialized
    /\ ~p0Destroyed
    /\ p0Destroyed' = TRUE
    /\ P0OnDestroyCallback
    /\ UNCHANGED <<p0Initialized, p0Count, p0Log, p0Periods>>
    /\ UNCHANGED appVars

NextP0 ==
    \/ P0NgOnInit
    \/ P0Period
    \/ P0Destroy

\* the component of part_000 on its own
SpecP0 == Init /\ [][NextP0]_vars

\* ------------------------------------------------------------ observations

IsValueLine(e) == "obj" \in DOMAIN e
IsCompletedLine(e) == e = CompletedLine
IsClickedLine(e) == "clicked" \in DOMAIN e

\* the notifications the customInterval$ observer has received, in order
CustomReceived ==
    SelectSeq(log, LAMBDA e : IsValueLine(e) \/ IsCompletedLine(e))

\* the next notifications any observer has received
ObserverNexts ==
    SelectSeq(log, LAMBDA e : IsValueLine(e) \/ IsClickedLine(e))

\* the lines of the clickCount$ observer, and the counts they carry
ClickedLines == SelectSeq(log, IsClickedLine)
ClickLog == [i \in 1..Len(ClickedLines) |-> ClickedLines[i].clicked]

IsPrefix(s, t) == Len(s) <= Len(t) /\ \A i \in 1..Len(s) : s[i] = t[i]

\* four payloads, then the completion
FullRun ==
    <<ValueLine(NewValue), ValueLine(NewValue), ValueLine(NewValue),
      ValueLine(NewValue), CompletedLine>>

\* ----------------------------------------------------------------- claims

\* C1: while the subscription to customInterval$ is never cancelled, its
\* observer receives a prefix of "four payloads {message: 'New value'}, then
\* one completion"; once the subscriber has completed or the timer has been
\* cleared it has received exactly that, and nothing can follow.
C1_FourValuesThenComplete ==
    /\ IsPrefix(CustomReceived, FullRun)
    /\ customSub = "completed" => CustomReceived = FullRun
    /\ (initialized /\ ~timerActive) =>
           (customSub = "completed" /\ CustomReceived = FullRun)

C1_Witness ==
    /\ customSub = "completed"
    /\ ~timerActive
    /\ Len(CustomReceived) = 5

\* C2: once the teardown callback has run, no observer (of customInterval$
\* or of clickCount$) receives a further next notification.
C2_NoNextAfterTeardown ==
    [][destroyed => ObserverNexts' = ObserverNexts]_vars

\* C3: a subscription to customInterval$ cancelled before the first timer
\* callback never delivers anything to its observer: no payload and no
\* completion, whatever number of callbacks run afterwards.
C3_NothingAfterEarlyCancel ==
    []((customSub = "canceled" /\ ticks = 0) => [](CustomReceived = <<>>))

C3_Witness ==
    /\ customSub = "canceled"
    /\ ticks = 5
    /\ ~timerActive
    /\ CustomReceived = <<>>

\* C4 as stated: by the end of the 4th timer callback the timer has been
\* cleared and the subscriber has received the completion.
C4_CompleteByFourthTick ==
    ticks >= 4 => (~timerActive /\ customSub = "completed")

\* C4 as amended: the timer is cleared and the completion delivered by the
\* first callback that finds the counter at 4, which is the 5th: after the
\* 4th callback the timer still runs, four payloads and no completion have
\* been delivered; after the 5th the timer is cleared and the subscriber
\* completed; there is no 6th.
C4_CompleteOnFifthTick ==
    /\ ticks <= 5
    /\ ticks = 4 => (timerActive /\ customSub = "active" /\ timesExecuted = 4
                     /\ Len(CustomReceived) = 4)
    /\ ticks = 5 => (~timerActive /\ customSub = "completed"
                     /\ CustomReceived = FullRun)

C4_Witness ==
    /\ ticks = 5
    /\ ~timerActive
    /\ customSub = "completed"

C6_InitialEmission ==
    initialized =>
        /\ Len(ClickLog) >= 1
        /\ ClickLog[1] = InitialCount
        /\ clicks = 0 => ClickLog = <<InitialCount>>
        /\ \A i \in 2..Len(ClickLog) : ClickLog[i] # InitialCount

C6_Witness ==
    /\ initialized
    /\ clicks = 0
    /\ ClickLog = <<0>>

C8_CountIsNumberOfClicks ==
    clickCount = clicks

C8_Witness ==
    /\ clicks = MaxClicks
    /\ clickCount = MaxClicks
    /\ destroyed
    /\ ticks = 5

\* C9: once the teardown callback has run, running it again changes nothing
\* (neither the state of `subscription` nor the number of times its teardown
\* was executed; it touches nothing else); and when the component is
\* destroyed after customInterval$ completed on its own, the completed
\* subscription, the cell and the log stay as they were.
C9_TeardownIdempotent ==
    /\ [](destroyed =>
            ~ENABLED (OnDestroyCallback /\
                      <<clickSub, clickFinalized>>' # <<clickSub, clickFinalized>>))
    /\ [][(destroyed' /\ ~destroyed /\ customSub = "completed") =>
              (customSub' = "completed" /\ log' = log
               /\ clickCount' = clickCount)]_vars

C9_Witness ==
    /\ destroyed
    /\ customSub = "completed"
    /\ clickSub = "canceled"
    /\ clickFinalized = 1

\* C10: ngOnInit registers exactly one teardown callback, and right after
\* the teardown callback has run no subscription made in ngOnInit is Active.
C10_NoneActiveAfterTeardown ==
    /\ initialized => onDestroyCbs = 1
    /\ destroyed => (customSub # "active" /\ clickSub # "active")

\* C11: in the part_000 component the k-th value logged is 2*(k-1) (0, 2, 4,
\* ...), and while the subscription is active exactly one value has been
\* logged per timer period elapsed: none skipped, none duplicated.
C11_LoggedDoubles ==
    /\ \A k \in 1..Len(p0Log) : p0Log[k] = 2 * (k - 1)
    /\ p0Sub = "active" => Len(p0Log) = p0Periods

C11_Witness ==
    /\ p0Sub = "active"
    /\ p0Periods = 4
    /\ p0Log = <<0, 2, 4, 6>>

\* C12: in the part_000 component, once the destroy callback has run the
\* subscription is cancelled and no step adds a value to the log, however
\* many values were logged before and however many periods elapse after.
C12_NoLogAfterDestroy ==
    /\ [](p0Destroyed => p0Sub = "canceled")
    /\ [][p0Destroyed => p0Log' = p0Log]_vars

C12_Witness ==
    /\ p0Destroyed
    /\ p0Sub = "canceled"
    /\ Len(p0Log) = 3
    /\ p0Periods = 8

\* the 'Emitting new value...' lines written by the timer callback
EmittingLines == SelectSeq(log, LAMBDA e : e = EmittingLine)

\* every line written on behalf of customInterval$: by its timer callback
\* and by its observer
CustomLines == SelectSeq(log, LAMBDA e : ~IsClickedLine(e))

\* n times the pair written by one emitting callback
RECURSIVE EmissionWrites(_)
EmissionWrites(n) ==
    IF n = 0 THEN <<>>
    ELSE EmissionWrites(n - 1) \o <<EmittingLine, ValueLine(NewValue)>>

Terminal(sub) == sub \in {"completed", "canceled"}

\* C13: after the subscription to customInterval$ has been cancelled, no
\* step writes 'Emitting new value...', raises the emission counter or
\* delivers anything to the subscriber's observer.
C13_NoEffectAfterCancel ==
    [][customSub = "canceled" =>
          /\ EmittingLines' = EmittingLines
          /\ timesExecuted' = timesExecuted
          /\ CustomReceived' = CustomReceived]_vars

\* C14: a subscription leaves "active" only for "completed" or "canceled",
\* and once it is completed or canceled no step changes its state or
\* delivers a notification to its observer.
C14_TerminalStatesAbsorbing ==
    [][/\ Terminal(customSub) =>
              (customSub' = customSub /\ CustomReceived' = CustomReceived)
       /\ Terminal(clickSub) =>
              (clickSub' = clickSub /\ ClickLog' = ClickLog
               /\ emitted' = emitted)
       /\ customSub' # customSub =>
              \/ (customSub = "none" /\ customSub' = "active")
              \/ (customSub = "active" /\ Terminal(customSub'))
       /\ clickSub' # clickSub =>
              \/ (clickSub = "none" /\ clickSub' = "active")
              \/ (clickSub = "active" /\ Terminal(clickSub'))]_vars

C14_Witness ==
    /\ customSub = "canceled"
    /\ clickSub = "canceled"
    /\ ~timerActive
    /\ clicks = MaxClicks
    /\ Len(CustomReceived) = 1

\* C15 as stated: the only lines written on behalf of customInterval$ are
\* the observer's, one per notification (4 payloads and 1 'COMPLETED' for a
\* run to completion).
C15_OneWritePerNotification ==
    CustomLines = CustomReceived

\* C15 as amended: every emission of customInterval$ writes two lines, the
\* timer callback's 'Emitting new value...' and then the observer's payload,
\* and the completion writes one 'COMPLETED': a run to completion writes 9
\* lines, 4 pairs and the 'COMPLETED', and nothing else.
C15_WritesOfRun ==
    /\ CustomLines =
           EmissionWrites(timesExecuted) \o
           (IF customSub = "completed" THEN <<CompletedLine>> ELSE <<>>)
    /\ customSub = "completed" =>
           (Len(CustomLines) = 9 /\ Len(EmittingLines) = 4
            /\ CustomReceived = FullRun)

C15_Witness ==
    /\ customSub = "completed"
    /\ Len(CustomLines) = 9
    /\ clicks = 1

\* C16: the handle of clickCount$ is Active from ngOnInit until the
\* teardown, its teardown is executed exactly once, by the component's
\* teardown and by no other step, and never a second time.
C16_CancelledOnceAtTeardown ==
    /\ []((initialized /\ ~destroyed) =>
              (clickSub = "active" /\ clickFinalized = 0))
    /\ [](destroyed => (clickSub = "canceled" /\ clickFinalized = 1))
    /\ [][clickFinalized' # clickFinalized => (~destroyed /\ destroyed')]_vars

C16_Witness ==
    /\ destroyed
    /\ clickSub = "canceled"
    /\ clickFinalized = 1
    /\ clicks = MaxClicks
    /\ ticks = 2

\* C17: when the timer queue keeps running the callbacks that are due, the
\* timer started by subscribing to customInterval$ is eventually cleared,
\* also when the subscriber cancelled or the component was torn down before
\* the 4th emission.
C17_TimerEventuallyCleared ==
    [](timerActive => <>(~timerActive))

C17_Witness ==
    /\ initialized
    /\ ~timerActive
    /\ customSub = "canceled"
    /\ destroyed
    /\ Len(CustomReceived) = 2

====
